---- MODULE Spec2Model ----
(***************************************************************************)
(* A model of the PhotoFunia client (photofunia.go): the lazily acquired   *)
(* session token, the request builder, the four-step effect pipeline       *)
(* (upload, effect invocation, result page, image download) and the        *)
(* result-page scan extractImageURL.                                       *)
(*                                                                         *)
(* Byte strings that the code scans (HTML, URLs scraped from it) are       *)
(* sequences of one-character strings; Go's 0-based half-open slice        *)
(* s[a:b] is SubSeq(s, a + 1, b).  Error values are the error's message.   *)
(***************************************************************************)
EXTENDS Integers, Sequences, FiniteSets, TLC

VARIABLES
    PHPSESSID,  \* the client's session token, "" when none is held
    pc,         \* position of the running effect operation, "idle" between calls
    op,         \* the running operation: effect path, effect name, parameters
    closes,     \* number of Close calls on the input stream of the running call
    imageKey,   \* key returned by the upload step of the running call
    resultURL,  \* final (post-redirect) URL of the effect-invocation response
    imageURL,   \* URL scraped from the result page
    cookie,     \* Cookie header of the request built last
    sess0,      \* the token the client held when the running call started
    reqs,       \* requests handed to the HTTP client during the running call
    resps,      \* resps[i] is the answer to reqs[i]; the last may be awaited
    ret,        \* what the last finished call returned: [data, err]
    calls,      \* number of effect operations started on the client
    boots,      \* session-bootstrap requests issued over the client's lifetime
    acquired,   \* number of generateSessIDWithContext calls that returned nil
    html,       \* extractImageURL: the input of the scan
    url,        \* extractImageURL: the returned string
    err,        \* extractImageURL: the returned error, Nil when none
    epc,        \* extractImageURL: "call" before the scan, "done" after
    tpc,        \* concurrent calls: position of each call in its request build
    tsaw,       \* concurrent calls: the token each call read at its check
    tgot,       \* concurrent calls: the cookie value each call is about to store
    thdr,       \* concurrent calls: the token each call put in its Cookie header
    tboots,     \* concurrent calls: bootstrap requests each call has issued
    heap,       \* derived clients: the PhotoFuniaClient structs, by address
    refs,       \* derived clients: the WithTimeout calls made so far
    hreqs,      \* derived clients: createRequestWithContext calls returned
    hboots,     \* derived clients: bootstrap requests issued for each struct
    hwait       \* derived clients: the struct's call awaits its bootstrap

vars == <<PHPSESSID, pc, op, closes, imageKey, resultURL, imageURL, cookie,
          sess0, reqs, resps, ret, calls, boots, acquired, html, url, err, epc,
          tpc, tsaw, tgot, thdr, tboots, heap, refs, hreqs, hboots,
          hwait>>

pipeVars == <<PHPSESSID, pc, op, closes, imageKey, resultURL, imageURL, cookie,
              sess0, reqs, resps, ret, calls, boots, acquired>>

scanVars == <<html, url, err, epc>>

concVars == <<tpc, tsaw, tgot, thdr, tboots>>

cloneVars == <<heap, refs, hreqs, hboots, hwait>>

\* the state of one sequential call, apart from the client's token
callVars == <<pc, op, closes, imageKey, resultURL, imageURL, cookie, sess0,
              reqs, resps, ret, calls>>

-----------------------------------------------------------------------------
(* Bounds of the exploration. *)

\* effect operations started on one client
MaxCalls == 2

\* pieces an explored HTML document is concatenated from
MaxPieces == 6

\* effect operations running concurrently on one client
MaxThreads == 2

\* client structs in existence
MaxClients == 2

\* calls of createRequestWithContext on one client struct
MaxRequests == 2

-----------------------------------------------------------------------------
(* Values. *)

\* the nil error
Nil == "<nil>"

\* the nil byte slice returned beside an error
NoData == <<"<nil>">>

baseURL == "https://photofunia.com"

RECURSIVE Flatten(_)
\* concatenation of a sequence of sequences
Flatten(ss) == IF ss = <<>> THEN <<>> ELSE Head(ss) \o Flatten(Tail(ss))

-----------------------------------------------------------------------------
(* extractImageURL and the byte search it is built on. *)

imgTagStart ==
    << "<", "i", "m", "g", " ", "i", "d", "=", "\"",
       "r", "e", "s", "u", "l", "t", "-", "i", "m", "a", "g", "e", "\"" >>

srcAttrStart == << "s", "r", "c", "=", "\"" >>

srcAttrEnd == << "\"" >>

\* sep occurs in s at 0-based offset i
OccursAt(s, sep, i) ==
    /\ i >= 0
    /\ i + Len(sep) <= Len(s)
    /\ SubSeq(s, i + 1, i + Len(sep)) = sep

\* bytes.Index: the 0-based offset of the first occurrence of sep in s, or -1
Index(s, sep) ==
    IF \E i \in 0..Len(s) : OccursAt(s, sep, i)
    THEN CHOOSE i \in 0..Len(s) :
            /\ OccursAt(s, sep, i)
            /\ \A j \in 0..(i - 1) : ~OccursAt(s, sep, j)
    ELSE -1

\* Go's s[from:], from a 0-based offset
From(s, from) == SubSeq(s, from + 1, Len(s))

\* the offset of the attribute value, from the two search results
SrcStartMissingBase(imgTagIndex, srcStartIndex) ==
    srcStartIndex + Len(srcAttrStart)

SrcStart(imgTagIndex, srcStartIndex) ==
    srcStartIndex + imgTagIndex + Len(srcAttrStart)

\* the third stage of the scan, from the offset of the attribute value
extractFrom(htmlContent, srcStartIndex) ==
    LET srcEndIndex == Index(From(htmlContent, srcStartIndex), srcAttrEnd)
    IN  IF srcEndIndex = -1
        THEN [url |-> <<>>, err |-> "could not find end of src attribute"]
        ELSE [url |-> SubSeq(htmlContent, srcStartIndex + 1,
                             srcEndIndex + srcStartIndex),
              err |-> Nil]

\* the scan with the three failures reported under one message
extractImageURLOneError(htmlContent) ==
    LET failure == [url |-> <<>>, err |-> "could not find result image in HTML"]
        imgTagIndex == Index(htmlContent, imgTagStart)
    IN  IF imgTagIndex = -1
        THEN failure
        ELSE LET srcStartIndex ==
                     Index(From(htmlContent, imgTagIndex), srcAttrStart)
             IN  IF srcStartIndex = -1
                 THEN failure
                 ELSE LET r == extractFrom(htmlContent,
                                           SrcStart(imgTagIndex, srcStartIndex))
                      IN  IF r.err = Nil THEN r ELSE failure

extractImageURL(htmlContent) ==
    LET imgTagIndex == Index(htmlContent, imgTagStart)
    IN  IF imgTagIndex = -1
        THEN [url |-> <<>>, err |-> "could not find result image in HTML"]
        ELSE LET srcStartIndex ==
                     Index(From(htmlContent, imgTagIndex), srcAttrStart)
             IN  IF srcStartIndex = -1
                 THEN [url |-> <<>>,
                       err |-> "could not find src attribute in image tag"]
                 ELSE extractFrom(htmlContent,
                                  SrcStart(imgTagIndex, srcStartIndex))

-----------------------------------------------------------------------------
(* The HTML documents explored: concatenations of at most MaxPieces pieces. *)

\* the marker, the attribute opener, a quote, a character of text, and the
\* character that ends an element
Pieces == { imgTagStart, srcAttrStart, srcAttrEnd, <<"x">>, <<">">> }

PieceSeqs == UNION { [1..n -> Pieces] : n \in 0..MaxPieces }

Htmls == { Flatten(ps) : ps \in PieceSeqs }

\* no scan is under way
ScanIdle ==
    /\ html = <<>>
    /\ url = <<>>
    /\ err = Nil
    /\ epc = "off"

ScanInit ==
    /\ html \in Htmls
    /\ url = <<>>
    /\ err = Nil
    /\ epc = "call"

\* one call of extractImageURL on the document
Extract ==
    /\ epc = "call"
    /\ LET r == extractImageURL(html)
       IN  /\ url' = r.url
           /\ err' = r.err
    /\ epc' = "done"
    /\ UNCHANGED html

-----------------------------------------------------------------------------
(* What the HTTP client and the input stream can answer. *)

StatusOK == "200 OK"

BadStatuses == { "500 Internal Server Error", "404 Not Found" }

\* a generic network failure
NetworkErr == "network error"

\* the caller's context was cancelled, or its deadline passed, during the call
ContextErrs == { "context canceled", "context deadline exceeded" }

TransportErrs == { NetworkErr } \cup ContextErrs

\* client.Do returned an error
Failed(cause) == [kind |-> "err", cause |-> cause]

Ck(name, value) == [name |-> name, value |-> value]

\* Set-Cookie lists of a session-bootstrap response
CookieLists ==
    { <<>>,
      << Ck("lang", "en") >>,
      << Ck("PHPSESSID", "s1") >>,
      << Ck("lang", "en"), Ck("PHPSESSID", "s2") >>,
      << Ck("PHPSESSID", "s2"), Ck("PHPSESSID", "s1") >>,
      << Ck("PHPSESSID", "") >> }

BootResponses ==
    { Failed(c) : c \in TransportErrs }
    \cup { [kind |-> "http", status |-> st, cookies |-> cs] :
             st \in BadStatuses \cup {StatusOK}, cs \in CookieLists }

\* bodies of an upload response: text that is no JSON, and JSON objects whose
\* response.key is absent, a number, or a string
Json(hasKey, keyType, key) ==
    [valid |-> TRUE, hasKey |-> hasKey, keyType |-> keyType, key |-> key]

UploadBodies ==
    { [valid |-> FALSE, hasKey |-> FALSE, keyType |-> "string", key |-> ""],
      Json(FALSE, "string", ""),
      Json(TRUE, "number", "7"),
      Json(TRUE, "string", ""),
      Json(TRUE, "string", "abc123"),
      Json(TRUE, "string", "k2") }

UploadResponses ==
    { Failed(c) : c \in TransportErrs }
    \cup { [kind |-> "http", status |-> st, body |-> b] :
             st \in BadStatuses \cup {StatusOK}, b \in UploadBodies }

\* final URLs of an effect-invocation response (resp.Request.URL)
ResultURLs == { baseURL \o "/results/r1", baseURL \o "/results/r2" }

EffectResponses ==
    { Failed(c) : c \in TransportErrs }
    \cup { [kind |-> "http", status |-> st, finalURL |-> u] :
             st \in BadStatuses \cup {StatusOK}, u \in ResultURLs }

ReadErrs == { Nil, "unexpected EOF" }

\* result pages: well formed (with a prefix, with attributes in between, with a
\* URL that net/http rejects), and the three malformed shapes
PageBodies ==
    { imgTagStart \o <<" ">> \o srcAttrStart \o <<"u">> \o srcAttrEnd \o <<">">>,
      <<"x">> \o imgTagStart \o <<" ", "a">> \o srcAttrStart \o <<"v", "w">>
          \o srcAttrEnd,
      imgTagStart \o srcAttrStart \o <<"\n">> \o srcAttrEnd,
      <<"x">> \o srcAttrStart \o <<"u">> \o srcAttrEnd,
      imgTagStart \o <<" ", "a", ">">>,
      imgTagStart \o <<" ">> \o srcAttrStart \o <<"u">> }

PageResponses ==
    { Failed(c) : c \in TransportErrs }
    \cup { [kind |-> "http", status |-> st, readErr |-> Nil, body |-> b] :
             st \in BadStatuses \cup {StatusOK}, b \in PageBodies }
    \cup { [kind |-> "http", status |-> StatusOK, readErr |-> "unexpected EOF",
            body |-> <<>>] }

\* bodies of an image-download response
Bodies == { <<>>, <<"D">>, <<"D", "E">> }

ImageResponses ==
    { Failed(c) : c \in TransportErrs }
    \cup { [kind |-> "http", status |-> st, readErr |-> Nil, body |-> b] :
             st \in BadStatuses \cup {StatusOK}, b \in Bodies }
    \cup { [kind |-> "http", status |-> StatusOK, readErr |-> "unexpected EOF",
            body |-> <<"D">>] }

\* bytes of the input stream
ImageBytes == <<"P", "N", "G">>

-----------------------------------------------------------------------------
(* The session manager and the request builder. *)

\* the loop over resp.Cookies(): index of the first cookie named PHPSESSID, 0
\* when there is none
SessionCookieIndex(cookies) ==
    IF \E i \in 1..Len(cookies) : cookies[i].name = "PHPSESSID"
    THEN CHOOSE i \in 1..Len(cookies) :
            /\ cookies[i].name = "PHPSESSID"
            /\ \A j \in 1..(i - 1) : cookies[j].name # "PHPSESSID"
    ELSE 0

\* the session manager without the error after the cookie loop
generateSessIDNoCookieError(sess, resp) ==
    IF resp.kind = "err"
    THEN [err |-> "failed to perform request to PhotoFunia for PHPSESSID: "
                  \o resp.cause,
          sess |-> sess]
    ELSE IF resp.status # StatusOK
    THEN [err |-> "server returned non-OK status for PHPSESSID request: "
                  \o resp.status,
          sess |-> sess]
    ELSE LET i == SessionCookieIndex(resp.cookies)
         IN  [err |-> Nil,
              sess |-> IF i = 0 THEN sess ELSE resp.cookies[i].value]

\* the session manager storing the cookie before it looks at the status
generateSessIDCookieBeforeStatus(sess, resp) ==
    IF resp.kind = "err"
    THEN [err |-> "failed to perform request to PhotoFunia for PHPSESSID: "
                  \o resp.cause,
          sess |-> sess]
    ELSE LET i == SessionCookieIndex(resp.cookies)
             stored == IF i = 0 THEN sess ELSE resp.cookies[i].value
         IN  IF resp.status # StatusOK
             THEN [err |-> "server returned non-OK status for PHPSESSID request: "
                           \o resp.status,
                   sess |-> stored]
             ELSE IF i = 0
             THEN [err |-> "PHPSESSID cookie not found in response",
                   sess |-> sess]
             ELSE [err |-> Nil, sess |-> stored]

\* generateSessIDWithContext on the answer resp of GET /cookie-warning, for a
\* client holding sess: the error returned and the token held afterwards
generateSessIDWithContext(sess, resp) ==
    IF resp.kind = "err"
    THEN [err |-> "failed to perform request to PhotoFunia for PHPSESSID: "
                  \o resp.cause,
          sess |-> sess]
    ELSE IF resp.status # StatusOK
    THEN [err |-> "server returned non-OK status for PHPSESSID request: "
                  \o resp.status,
          sess |-> sess]
    ELSE LET i == SessionCookieIndex(resp.cookies)
         IN  IF i = 0
             THEN [err |-> "PHPSESSID cookie not found in response", sess |-> sess]
             ELSE [err |-> Nil, sess |-> resp.cookies[i].value]

\* the request builder asks for a session whatever token is held
NeedsSessionAlways(sess) == TRUE

\* the guard of the lazy acquisition in createRequestWithContext
NeedsSession(sess) == sess = ""

\* http.NewRequestWithContext on a scraped URL: net/url rejects a URL holding
\* an ASCII control character
NewRequestErr(u) ==
    IF \E i \in 1..Len(u) : u[i] = "\n"
    THEN "net/url: invalid control character in URL"
    ELSE Nil

\* createRequestWithContext for a client holding sess: newReqErr is the error of
\* http.NewRequestWithContext (Nil when none), resp the answer the bootstrap
\* request gets if one is sent.  Yields the error returned, the token held
\* afterwards, the Cookie header of the built request, whether a bootstrap
\* request was sent and whether it acquired a session.
createRequestWithContext(sess, newReqErr, resp) ==
    IF newReqErr # Nil
    THEN [err |-> newReqErr, sess |-> sess, cookie |-> "", sent |-> 0, got |-> 0]
    ELSE IF NeedsSession(sess)
    THEN LET g == generateSessIDWithContext(sess, resp)
         IN  IF g.err # Nil
             THEN [err |-> g.err, sess |-> g.sess, cookie |-> "",
                   sent |-> 1, got |-> 0]
             ELSE [err |-> Nil, sess |-> g.sess,
                   cookie |-> "accept_cookie=true; PHPSESSID=" \o g.sess,
                   sent |-> 1, got |-> 1]
    ELSE [err |-> Nil, sess |-> sess,
          cookie |-> "accept_cookie=true; PHPSESSID=" \o sess,
          sent |-> 0, got |-> 0]

\* a request as the HTTP client sees it
Request(ep, method, u, ck, referer, body) ==
    [ep |-> ep, method |-> method, url |-> u, cookie |-> ck,
     referer |-> referer, body |-> body]

\* the request of generateSessIDWithContext
BootRequest ==
    Request("session", "GET", baseURL \o "/cookie-warning", "accept_cookie=true",
            "", <<>>)

-----------------------------------------------------------------------------
(* The steps of the pipeline, as functions of the answer they get. *)

\* json.Decode of the upload response body into photoFuniaResponse
Decode(body) ==
    IF ~body.valid
    THEN [err |-> "invalid character 'i' looking for beginning of value",
          key |-> ""]
    ELSE IF body.hasKey /\ body.keyType # "string"
    THEN [err |-> "json: cannot unmarshal number into Go struct field "
                  \o ".response.key of type string",
          key |-> ""]
    ELSE [err |-> Nil, key |-> IF body.hasKey THEN body.key ELSE ""]

\* the upload step without the status check
uploadResultNoStatusCheck(resp) ==
    IF resp.kind = "err"
    THEN [err |-> "failed to perform request to PhotoFunia: " \o resp.cause,
          key |-> ""]
    ELSE LET d == Decode(resp.body)
         IN  IF d.err # Nil
             THEN [err |-> "failed to decode response: " \o d.err, key |-> ""]
             ELSE [err |-> Nil, key |-> d.key]

\* uploadImageWithContext after client.Do: the error and the decoded key
uploadResult(resp) ==
    IF resp.kind = "err"
    THEN [err |-> "failed to perform request to PhotoFunia: " \o resp.cause,
          key |-> ""]
    ELSE IF resp.status # StatusOK
    THEN [err |-> "server returned non-OK status: " \o resp.status, key |-> ""]
    ELSE LET d == Decode(resp.body)
         IN  IF d.err # Nil
             THEN [err |-> "failed to decode response: " \o d.err, key |-> ""]
             ELSE [err |-> Nil, key |-> d.key]

\* no key check
KeyErrNone(key) == Nil

\* the key check of applyEffectWithContext
KeyErr(key) ==
    IF key = "" THEN "image key is empty in the response" ELSE Nil

\* the effect invocation without the status check
effectResultNoStatusCheck(effectName, resp) ==
    IF resp.kind = "err"
    THEN [err |-> "failed to perform request to PhotoFunia " \o effectName
                  \o " effect: " \o resp.cause,
          resultURL |-> ""]
    ELSE [err |-> Nil, resultURL |-> resp.finalURL]

\* the effect invocation handing on the URL it requested, not the final one
effectResultRequestedURL(effectName, resp) ==
    IF resp.kind = "err"
    THEN [err |-> "failed to perform request to PhotoFunia " \o effectName
                  \o " effect: " \o resp.cause,
          resultURL |-> ""]
    ELSE IF resp.status # StatusOK
    THEN [err |-> "server returned non-OK status: " \o resp.status,
          resultURL |-> ""]
    ELSE [err |-> Nil, resultURL |-> baseURL \o "/categories/?server=1"]

\* applyEffectWithContext after client.Do of the effect invocation
effectResult(effectName, resp) ==
    IF resp.kind = "err"
    THEN [err |-> "failed to perform request to PhotoFunia " \o effectName
                  \o " effect: " \o resp.cause,
          resultURL |-> ""]
    ELSE IF resp.status # StatusOK
    THEN [err |-> "server returned non-OK status: " \o resp.status,
          resultURL |-> ""]
    ELSE [err |-> Nil, resultURL |-> resp.finalURL]

\* the result-page fetch that drops the cause of a transport error
pageResultNoCause(resp) ==
    IF resp.kind = "err"
    THEN [err |-> "failed to get result page", url |-> <<>>]
    ELSE IF resp.status # StatusOK
    THEN [err |-> "server returned non-OK status for result page: "
                  \o resp.status,
          url |-> <<>>]
    ELSE IF resp.readErr # Nil
    THEN [err |-> "failed to read HTML content: " \o resp.readErr, url |-> <<>>]
    ELSE extractImageURL(resp.body)

\* getResultImageWithContext after client.Do of the result page
pageResult(resp) ==
    IF resp.kind = "err"
    THEN [err |-> "failed to get result page: " \o resp.cause, url |-> <<>>]
    ELSE IF resp.status # StatusOK
    THEN [err |-> "server returned non-OK status for result page: "
                  \o resp.status,
          url |-> <<>>]
    ELSE IF resp.readErr # Nil
    THEN [err |-> "failed to read HTML content: " \o resp.readErr, url |-> <<>>]
    ELSE extractImageURL(resp.body)

\* the image download hands back the body without its last byte
imageResultTruncated(resp) ==
    IF resp.kind = "http" /\ resp.status = StatusOK /\ resp.readErr = Nil
    THEN [err |-> Nil,
          data |-> SubSeq(resp.body, 1, Len(resp.body) - 1)]
    ELSE [err |-> "failed to download image", data |-> NoData]

\* the image download that returns what it read when the read failed
imageResultSwallowReadErr(resp) ==
    IF resp.kind = "err"
    THEN [err |-> "failed to download image: " \o resp.cause, data |-> NoData]
    ELSE IF resp.status # StatusOK
    THEN [err |-> "server returned non-OK status for image: " \o resp.status,
          data |-> NoData]
    ELSE [err |-> Nil, data |-> resp.body]

\* getResultImageWithContext after client.Do of the image download
imageResult(resp) ==
    IF resp.kind = "err"
    THEN [err |-> "failed to download image: " \o resp.cause, data |-> NoData]
    ELSE IF resp.status # StatusOK
    THEN [err |-> "server returned non-OK status for image: " \o resp.status,
          data |-> NoData]
    ELSE IF resp.readErr # Nil
    THEN [err |-> "failed to read image data: " \o resp.readErr,
          data |-> NoData]
    ELSE [err |-> Nil, data |-> resp.body]

-----------------------------------------------------------------------------
(* The effect operations on one client, one call after another. *)

\* ret while a call is running
Running == [data |-> NoData, err |-> "<running>"]

\* the fat-maker parameters under the clown effect's category
FatParamsClownCategory ==
    ("current-category" :> "all_effects") @@ ("image:crop" :> "0.0.961.1093")
        @@ ("size" :> "XXXXXL")

FatParams ==
    ("current-category" :> "faces") @@ ("image:crop" :> "0.0.961.1093")
        @@ ("size" :> "XXXXXL")

\* the hat toggle written as a boolean
ClownParamsBoolText(includeHat) ==
    ("current-category" :> "all_effects") @@ ("image:crop" :> "0.0.961.1093")
        @@ ("hat" :> IF includeHat THEN "true" ELSE "false")

ClownParams(includeHat) ==
    ("current-category" :> "all_effects") @@ ("image:crop" :> "0.0.961.1093")
        @@ ("hat" :> IF includeHat THEN "on" ELSE "off")

NoOp == [effectPath |-> "", effectName |-> "", params |-> <<>>, hat |-> "none"]

\* the stream is closed only at the end of a completed upload
closeOnReturnNoDefer(path) == path = "uploaded"

\* defer imageReader.Close(): whether the return of uploadImageWithContext on
\* path closes the input stream: "read", "session" and "upload" are its
\* failures (reading the stream, building the request, the upload itself),
\* "uploaded" its success
closeOnReturn(path) == TRUE

\* Close calls on the stream after uploadImageWithContext returned on path
Closed(n, path) == IF closeOnReturn(path) THEN n + 1 ELSE n

\* the key stored under another parameter name
mergeKeyAsKey(params, key) == ("key" :> key) @@ params

\* params["image"] = imageKey
mergeKey(params, key) == ("image" :> key) @@ params

PipeInit ==
    /\ PHPSESSID = ""
    /\ pc = "idle"
    /\ op = NoOp
    /\ closes = 0
    /\ imageKey = ""
    /\ resultURL = ""
    /\ imageURL = <<>>
    /\ cookie = ""
    /\ sess0 = ""
    /\ reqs = <<>>
    /\ resps = <<>>
    /\ ret = [data |-> NoData, err |-> Nil]
    /\ calls = 0
    /\ boots = 0
    /\ acquired = 0

\* entry of applyEffectWithContext
Enter(effectPath, params, effectName, hat) ==
    /\ pc = "idle"
    /\ calls < MaxCalls
    /\ calls' = calls + 1
    /\ op' = [effectPath |-> effectPath, effectName |-> effectName,
              params |-> params, hat |-> hat]
    /\ pc' = "read"
    /\ closes' = 0
    /\ imageKey' = ""
    /\ resultURL' = ""
    /\ imageURL' = <<>>
    /\ cookie' = ""
    /\ sess0' = PHPSESSID
    /\ reqs' = <<>>
    /\ resps' = <<>>
    /\ ret' = Running
    /\ UNCHANGED <<PHPSESSID, boots, acquired>>

FatifyWithContext ==
    /\ Enter("faces/fat_maker", FatParams, "fatify", "none")
    /\ UNCHANGED <<scanVars, concVars, cloneVars>>

ClownifyWithContext ==
    /\ \E includeHat \in BOOLEAN :
          Enter("all_effects/clown", ClownParams(includeHat), "clownify",
                includeHat)
    /\ UNCHANGED <<scanVars, concVars, cloneVars>>

\* the call returns (data, e)
Return(data, e) ==
    /\ ret' = [data |-> data, err |-> e]
    /\ pc' = "idle"

\* the upload request is built, and a session acquired for it, before the
\* stream is read
ReadImageAfterRequest ==
    /\ pc = "read"
    /\ \E e \in ReadErrs, resp \in BootResponses :
          LET r == createRequestWithContext(PHPSESSID, Nil, resp)
          IN  /\ PHPSESSID' = r.sess
              /\ boots' = boots + r.sent
              /\ acquired' = acquired + r.got
              /\ reqs' = IF r.sent = 1 THEN Append(reqs, BootRequest) ELSE reqs
              /\ resps' = IF r.sent = 1 THEN Append(resps, resp) ELSE resps
              /\ IF r.err # Nil
                 THEN /\ closes' = Closed(closes, "session")
                      /\ Return(NoData, r.err)
                 ELSE IF e # Nil
                 THEN /\ closes' = Closed(closes, "read")
                      /\ Return(NoData, "failed to read image data: " \o e)
                 ELSE /\ pc' = "upload_req"
                      /\ UNCHANGED <<closes, ret>>
    /\ UNCHANGED <<op, imageKey, resultURL, imageURL, cookie, sess0, calls,
                   scanVars, concVars, cloneVars>>

\* io.ReadAll of the input stream; a failed read returns through the deferred
\* Close
ReadImage ==
    /\ pc = "read"
    /\ \E e \in ReadErrs :
          IF e # Nil
          THEN /\ closes' = Closed(closes, "read")
               /\ Return(NoData, "failed to read image data: " \o e)
          ELSE /\ pc' = "upload_req"
               /\ UNCHANGED <<closes, ret>>
    /\ UNCHANGED <<PHPSESSID, op, imageKey, resultURL, imageURL, cookie, sess0,
                   reqs, resps, calls, boots, acquired,
                   scanVars, concVars, cloneVars>>

\* the position at which the call waits for the answer to the session
\* bootstrap of the request it is building
Awaiting ==
    ("upload_req" :> "upload_boot") @@ ("effect_req" :> "effect_boot")
        @@ ("page_req" :> "page_boot") @@ ("image_req" :> "image_boot")

\* createRequestWithContext, given the error newReqErr of
\* http.NewRequestWithContext, goes on to ask for a session
Bootstraps(newReqErr) == newReqErr = Nil /\ NeedsSession(PHPSESSID)

\* the client.Do of generateSessIDWithContext hands the bootstrap request to
\* the HTTP client; the call waits for the answer
SendBootstrap ==
    /\ pc \in DOMAIN Awaiting
    /\ Bootstraps(IF pc = "image_req" THEN NewRequestErr(imageURL) ELSE Nil)
    /\ reqs' = Append(reqs, BootRequest)
    /\ boots' = boots + 1
    /\ pc' = Awaiting[pc]
    /\ UNCHANGED <<PHPSESSID, op, closes, imageKey, resultURL, imageURL, cookie,
                   sess0, resps, ret, calls, acquired,
                   scanVars, concVars, cloneVars>>

\* createRequestWithContext in the running call, at position at when it sends
\* no bootstrap and at Awaiting[at] when the answer to its bootstrap arrives:
\* on success the built request waits at position to, on failure the call
\* returns the error behind prefix; closing tells whether the return runs the
\* deferred Close of the stream
Build(at, to, newReqErr, prefix, closing) ==
    /\ \/ pc = Awaiting[at]
       \/ pc = at /\ ~Bootstraps(newReqErr)
    /\ \E resp \in BootResponses :
          LET r == createRequestWithContext(PHPSESSID, newReqErr, resp)
          IN  /\ PHPSESSID' = r.sess
              /\ acquired' = acquired + r.got
              /\ resps' = IF pc = Awaiting[at] THEN Append(resps, resp)
                                               ELSE resps
              /\ IF r.err # Nil
                 THEN /\ Return(NoData, prefix \o r.err)
                      /\ closes' = IF closing
                                   THEN Closed(closes, "session")
                                   ELSE closes
                      /\ UNCHANGED cookie
                 ELSE /\ cookie' = r.cookie
                      /\ pc' = to
                      /\ UNCHANGED <<closes, ret>>
    /\ UNCHANGED <<op, imageKey, resultURL, imageURL, sess0, reqs, calls, boots,
                   scanVars, concVars, cloneVars>>

BuildUploadRequest ==
    /\ pc \in {"upload_req", "upload_boot"}
    /\ Build("upload_req", "upload_do", Nil, "", TRUE)

\* client.Do of the upload hands the request to the HTTP client; the call
\* waits for the answer with the stream still open
SendUpload ==
    /\ pc = "upload_do"
    /\ reqs' = Append(reqs, Request("upload", "POST",
                                    baseURL \o "/images?server=1", cookie,
                                    baseURL \o "/categories/all_effects/clown",
                                    ImageBytes))
    /\ pc' = "upload_wait"
    /\ UNCHANGED <<PHPSESSID, op, closes, imageKey, resultURL, imageURL, cookie,
                   sess0, resps, ret, calls, boots, acquired,
                   scanVars, concVars, cloneVars>>

\* the answer to the upload and the rest of uploadImageWithContext, whose
\* return closes the stream; then the key check and the merge of the key into
\* the parameters
DoUpload ==
    /\ pc = "upload_wait"
    /\ \E resp \in UploadResponses :
          LET r == uploadResult(resp)
          IN  /\ resps' = Append(resps, resp)
              /\ closes' = Closed(closes, IF r.err # Nil THEN "upload"
                                                         ELSE "uploaded")
              /\ IF r.err # Nil
                 THEN /\ Return(NoData, r.err)
                      /\ UNCHANGED <<imageKey, op>>
                 ELSE IF KeyErr(r.key) # Nil
                 THEN /\ Return(NoData, KeyErr(r.key))
                      /\ UNCHANGED <<imageKey, op>>
                 ELSE /\ imageKey' = r.key
                      /\ op' = [op EXCEPT !.params = mergeKey(@, r.key)]
                      /\ pc' = "effect_req"
                      /\ UNCHANGED ret
    /\ UNCHANGED <<PHPSESSID, resultURL, imageURL, cookie, sess0, reqs, calls,
                   boots, acquired, scanVars, concVars, cloneVars>>

BuildEffectRequest ==
    /\ pc \in {"effect_req", "effect_boot"}
    /\ Build("effect_req", "effect_do", Nil, "", FALSE)

\* client.Do of the effect invocation hands the request to the HTTP client
SendEffect ==
    /\ pc = "effect_do"
    /\ reqs' = Append(reqs, Request("effect", "POST",
                                    baseURL \o "/categories/" \o op.effectPath
                                        \o "?server=1",
                                    cookie,
                                    baseURL \o "/categories/" \o op.effectPath,
                                    op.params))
    /\ pc' = "effect_wait"
    /\ UNCHANGED <<PHPSESSID, op, closes, imageKey, resultURL, imageURL, cookie,
                   sess0, resps, ret, calls, boots, acquired,
                   scanVars, concVars, cloneVars>>

\* the answer to the effect invocation
DoEffect ==
    /\ pc = "effect_wait"
    /\ \E resp \in EffectResponses :
          LET r == effectResult(op.effectName, resp)
          IN  /\ resps' = Append(resps, resp)
              /\ IF r.err # Nil
                 THEN /\ Return(NoData, r.err)
                      /\ UNCHANGED resultURL
                 ELSE /\ resultURL' = r.resultURL
                      /\ pc' = "page_req"
                      /\ UNCHANGED ret
    /\ UNCHANGED <<PHPSESSID, op, closes, imageKey, imageURL, cookie, sess0,
                   reqs, calls, boots, acquired,
                   scanVars, concVars, cloneVars>>

BuildPageRequest ==
    /\ pc \in {"page_req", "page_boot"}
    /\ Build("page_req", "page_do", Nil,
             "failed to create HTTP request for result page: ", FALSE)

\* client.Do of the result page hands the request to the HTTP client
SendPage ==
    /\ pc = "page_do"
    /\ reqs' = Append(reqs, Request("page", "GET", resultURL, cookie, "", <<>>))
    /\ pc' = "page_wait"
    /\ UNCHANGED <<PHPSESSID, op, closes, imageKey, resultURL, imageURL, cookie,
                   sess0, resps, ret, calls, boots, acquired,
                   scanVars, concVars, cloneVars>>

\* the answer to the result-page request, the read of its body and the scan
DoPage ==
    /\ pc = "page_wait"
    /\ \E resp \in PageResponses :
          LET r == pageResult(resp)
          IN  /\ resps' = Append(resps, resp)
              /\ IF r.err # Nil
                 THEN /\ Return(NoData, r.err)
                      /\ UNCHANGED imageURL
                 ELSE /\ imageURL' = r.url
                      /\ pc' = "image_req"
                      /\ UNCHANGED ret
    /\ UNCHANGED <<PHPSESSID, op, closes, imageKey, resultURL, cookie, sess0,
                   reqs, calls, boots, acquired,
                   scanVars, concVars, cloneVars>>

BuildImageRequest ==
    /\ pc \in {"image_req", "image_boot"}
    /\ Build("image_req", "image_do", NewRequestErr(imageURL),
             "failed to create HTTP request for image: ", FALSE)

\* client.Do of the image download hands the request to the HTTP client
SendImage ==
    /\ pc = "image_do"
    /\ reqs' = Append(reqs, Request("image", "GET", imageURL, cookie, resultURL,
                                    <<>>))
    /\ pc' = "image_wait"
    /\ UNCHANGED <<PHPSESSID, op, closes, imageKey, resultURL, imageURL, cookie,
                   sess0, resps, ret, calls, boots, acquired,
                   scanVars, concVars, cloneVars>>

\* the answer to the image download and the read of its body
DoImage ==
    /\ pc = "image_wait"
    /\ \E resp \in ImageResponses :
          LET r == imageResult(resp)
          IN  /\ resps' = Append(resps, resp)
              /\ Return(r.data, r.err)
    /\ UNCHANGED <<PHPSESSID, op, closes, imageKey, resultURL, imageURL, cookie,
                   sess0, reqs, calls, boots, acquired,
                   scanVars, concVars, cloneVars>>

Threads == 1..MaxThreads

\* no concurrent call is under way
ConcIdle ==
    /\ tpc = [t \in Threads |-> "off"]
    /\ tsaw = [t \in Threads |-> ""]
    /\ tgot = [t \in Threads |-> ""]
    /\ thdr = [t \in Threads |-> ""]
    /\ tboots = [t \in Threads |-> 0]

\* no client has been derived
CloneIdle ==
    /\ heap = <<>>
    /\ refs = <<>>
    /\ hreqs = <<>>
    /\ hboots = <<>>
    /\ hwait = <<>>

Init == PipeInit /\ ScanIdle /\ ConcIdle /\ CloneIdle

Next ==
    \/ FatifyWithContext
    \/ ClownifyWithContext
    \/ ReadImage
    \/ SendBootstrap
    \/ BuildUploadRequest
    \/ SendUpload
    \/ DoUpload
    \/ BuildEffectRequest
    \/ SendEffect
    \/ DoEffect
    \/ BuildPageRequest
    \/ SendPage
    \/ DoPage
    \/ BuildImageRequest
    \/ SendImage
    \/ DoImage

\* sequential effect operations on one client
Spec == Init /\ [][Next]_vars

ScanNext == Extract /\ UNCHANGED <<pipeVars, concVars, cloneVars>>

\* a fresh client and a document to scan
InitScan == PipeInit /\ ScanInit /\ ConcIdle /\ CloneIdle

\* extractImageURL on every explored document
SpecScan == InitScan /\ [][ScanNext]_vars

-----------------------------------------------------------------------------
(* Effect operations running concurrently on one client, each followed up to *)
(* the request it builds first.  The client's token is read and written      *)
(* without synchronization: the steps of createRequestWithContext and        *)
(* generateSessIDWithContext of different calls interleave, and a read that  *)
(* overlaps another call's write may see a half-written value.               *)

\* what a read of c.PHPSESSID that overlaps a write can yield besides the old
\* and the new value
Torn == "<torn>"

\* the values a read of c.PHPSESSID by call t can yield
Observed(t) ==
    {PHPSESSID}
    \cup IF \E u \in Threads \ {t} : tpc[u] = "store" THEN {Torn} ELSE {}

ConcInit ==
    /\ tpc = [t \in Threads |-> "check"]
    /\ tsaw = [t \in Threads |-> ""]
    /\ tgot = [t \in Threads |-> ""]
    /\ thdr = [t \in Threads |-> ""]
    /\ tboots = [t \in Threads |-> 0]

\* the test of the held token in createRequestWithContext
Check ==
    \E t \in Threads :
        /\ tpc[t] = "check"
        /\ \E v \in Observed(t) :
              /\ tsaw' = [tsaw EXCEPT ![t] = v]
              /\ tpc' = [tpc EXCEPT ![t] = IF NeedsSession(v) THEN "boot"
                                                              ELSE "header"]
        /\ UNCHANGED <<PHPSESSID, boots, acquired, tgot, thdr, tboots,
                       callVars, scanVars, cloneVars>>

\* generateSessIDWithContext hands its request to the HTTP client
Send ==
    \E t \in Threads :
        /\ tpc[t] = "boot"
        /\ boots' = boots + 1
        /\ tboots' = [tboots EXCEPT ![t] = @ + 1]
        /\ tpc' = [tpc EXCEPT ![t] = "wait"]
        /\ UNCHANGED <<PHPSESSID, acquired, tsaw, tgot, thdr, callVars,
                       scanVars, cloneVars>>

\* the answer to the bootstrap request arrives: an error ends the call, a
\* PHPSESSID cookie is about to be stored
Receive ==
    \E t \in Threads :
        /\ tpc[t] = "wait"
        /\ \E resp \in BootResponses :
              LET g == generateSessIDWithContext(tsaw[t], resp)
              IN  IF g.err # Nil
                  THEN /\ tpc' = [tpc EXCEPT ![t] = "failed"]
                       /\ UNCHANGED tgot
                  ELSE /\ tpc' = [tpc EXCEPT ![t] = "store"]
                       /\ tgot' = [tgot EXCEPT ![t] = g.sess]
        /\ UNCHANGED <<PHPSESSID, boots, acquired, tsaw, thdr, tboots,
                       callVars, scanVars, cloneVars>>

\* c.PHPSESSID = cookie.Value
Store ==
    \E t \in Threads :
        /\ tpc[t] = "store"
        /\ PHPSESSID' = tgot[t]
        /\ acquired' = acquired + 1
        /\ tpc' = [tpc EXCEPT ![t] = "header"]
        /\ UNCHANGED <<boots, tsaw, tgot, thdr, tboots, callVars,
                       scanVars, cloneVars>>

\* the Cookie header is set from c.PHPSESSID and the request is built
Header ==
    \E t \in Threads :
        /\ tpc[t] = "header"
        /\ \E v \in Observed(t) : thdr' = [thdr EXCEPT ![t] = v]
        /\ tpc' = [tpc EXCEPT ![t] = "built"]
        /\ UNCHANGED <<PHPSESSID, boots, acquired, tsaw, tgot, tboots,
                       callVars, scanVars, cloneVars>>

InitConc == PipeInit /\ ScanIdle /\ ConcInit /\ CloneIdle

NextConc ==
    \/ Check
    \/ Send
    \/ Receive
    \/ Store
    \/ Header

\* concurrent effect operations on one client that holds no token
SpecConc == InitConc /\ [][NextConc]_vars

-----------------------------------------------------------------------------
(* Clients derived with WithTimeout.  The structs live at addresses 1, 2, ... *)
(* of heap; a *PhotoFuniaClient is an address.                               *)

\* seconds of the default timeout
DefaultTimeout == 30

\* timeouts passed to WithTimeout, in seconds
Timeouts == { 5, 60 }

\* &http.Client{Timeout: timeout}, allocated at address id
HttpClient(id, timeout) == [id |-> id, Timeout |-> timeout]

\* the struct NewPhotoFuniaClient allocates at address id
NewPhotoFuniaClient(id) ==
    [PHPSESSID |-> "", logger |-> "NoopLogger",
     client |-> HttpClient(id, DefaultTimeout), timeout |-> DefaultTimeout]

\* the timeout set on the receiver itself, which is returned
WithTimeoutInPlace(h, c, timeout) ==
    [heap |-> [h EXCEPT ![c].timeout = timeout,
                        ![c].client = HttpClient(Len(h) + 1, timeout)],
     ref |-> c]

\* c.WithTimeout(timeout) on heap h: the heap afterwards and the address
\* returned
WithTimeout(h, c, timeout) ==
    LET newClient == [h[c] EXCEPT !.timeout = timeout,
                                  !.client = HttpClient(Len(h) + 1, timeout)]
    IN  [heap |-> Append(h, newClient), ref |-> Len(h) + 1]

CloneInit ==
    /\ heap = << NewPhotoFuniaClient(1) >>
    /\ refs = <<>>
    /\ hreqs = << 0 >>
    /\ hboots = << 0 >>
    /\ hwait = << FALSE >>

\* a call c.WithTimeout(timeout) on one of the clients
CallWithTimeout ==
    /\ Len(heap) < MaxClients
    /\ \E c \in 1..Len(heap), timeout \in Timeouts :
          LET w == WithTimeout(heap, c, timeout)
          IN  /\ heap' = w.heap
              /\ refs' = Append(refs, [of |-> c, timeout |-> timeout,
                                       ref |-> w.ref])
              /\ hreqs' = IF Len(w.heap) > Len(heap)
                          THEN Append(hreqs, 0) ELSE hreqs
              /\ hboots' = IF Len(w.heap) > Len(heap)
                           THEN Append(hboots, 0) ELSE hboots
              /\ hwait' = IF Len(w.heap) > Len(heap)
                          THEN Append(hwait, FALSE) ELSE hwait
    /\ UNCHANGED <<pipeVars, scanVars, concVars>>

\* createRequestWithContext on one of the clients finds no token and
\* generateSessIDWithContext hands the bootstrap request to the HTTP client:
\* the call waits for the answer, the token still absent
RequestSession ==
    /\ \E c \in 1..Len(heap) :
          /\ ~hwait[c]
          /\ hreqs[c] < MaxRequests
          /\ NeedsSession(heap[c].PHPSESSID)
          /\ hboots' = [hboots EXCEPT ![c] = @ + 1]
          /\ hwait' = [hwait EXCEPT ![c] = TRUE]
    /\ UNCHANGED <<heap, refs, hreqs, pipeVars, scanVars, concVars>>

\* createRequestWithContext on one of the clients returns, for a URL that
\* http.NewRequestWithContext accepts: at once when the client holds a token,
\* else when the answer to its bootstrap request has arrived
CreateRequest ==
    /\ \E c \in 1..Len(heap) :
          /\ hreqs[c] < MaxRequests
          /\ hwait[c] \/ ~NeedsSession(heap[c].PHPSESSID)
          /\ \E resp \in IF hwait[c] THEN BootResponses
                                    ELSE { Failed(NetworkErr) } :
                LET r == createRequestWithContext(heap[c].PHPSESSID, Nil, resp)
                IN  heap' = [heap EXCEPT ![c].PHPSESSID = r.sess]
          /\ hreqs' = [hreqs EXCEPT ![c] = @ + 1]
          /\ hwait' = [hwait EXCEPT ![c] = FALSE]
    /\ UNCHANGED <<refs, hboots, pipeVars, scanVars, concVars>>

InitClone == PipeInit /\ ScanIdle /\ ConcIdle /\ CloneInit

NextClone ==
    \/ CallWithTimeout
    \/ RequestSession
    \/ CreateRequest

\* clients derived from one another, and the requests built on them
SpecClone == InitClone /\ [][NextClone]_vars

-----------------------------------------------------------------------------
(* Properties of the session token. *)

\* positions of the running call's requests to endpoint ep
At(ep) == { i \in 1..Len(reqs) : reqs[i].ep = ep }

\* positions of the running call's requests that have been answered
Answered == 1..Len(resps)

\* a bootstrap answer that acquires nothing: a transport error, a non-OK
\* status, or no PHPSESSID cookie
NoSession(resp) ==
    \/ resp.kind = "err"
    \/ resp.status # StatusOK
    \/ \A i \in 1..Len(resp.cookies) : resp.cookies[i].name # "PHPSESSID"

\* C1: once a session-bootstrap request has acquired a session (status 200
\* with a PHPSESSID cookie, whatever its value), no step of this or of a later
\* call issues another session-bootstrap request.
C1_SingleBootstrap == [][acquired >= 1 => boots' = boots]_vars

\* C2: a call that starts on a client holding a non-empty token issues no
\* request to the session-bootstrap endpoint, at any position and on any
\* outcome.
C2_NoBootstrapWhenHeld == sess0 # "" => At("session") = {}

\* C2 witness: a call that started with a token held went through all four
\* requests and returned the image.
C2_Witness ==
    /\ sess0 # ""
    /\ pc = "idle"
    /\ ret.err = Nil
    /\ Len(reqs) = 4

\* C3: a held (non-empty) session token is never written again: every step
\* leaves it as it is, so the token is written only while it is absent.
C3_TokenStable == [][PHPSESSID # "" => PHPSESSID' = PHPSESSID]_vars

\* C3 witness: a second call on a client that already held a token has failed
\* after sending requests, and the token is the one held at its start.
C3_Witness ==
    /\ calls = 2
    /\ pc = "idle"
    /\ sess0 # ""
    /\ PHPSESSID = sess0
    /\ ret.err # Nil
    /\ Len(reqs) >= 2

-----------------------------------------------------------------------------
(* Properties of the pipeline. *)

\* the endpoint of the request sent last in the running call
LastEp == IF reqs = <<>> THEN "" ELSE reqs[Len(reqs)].ep

\* a 200 answer whose body was read in full
Delivered(resp) ==
    /\ resp.kind = "http"
    /\ resp.status = StatusOK
    /\ resp.readErr = Nil

\* C4: when the image download is answered with status 200 and a readable
\* body (every earlier step having succeeded), the call has returned exactly
\* that body and no error.
C4_ReturnsDownloadedBody ==
    \A i \in At("image") \cap Answered :
        Delivered(resps[i]) =>
            /\ pc = "idle"
            /\ ret = [data |-> resps[i].body, err |-> Nil]

\* C4 witness: a call that bootstrapped a session and sent all four requests
\* returned the two-byte body of the download.
C4_Witness ==
    /\ pc = "idle"
    /\ Len(reqs) = 5
    /\ reqs[1].ep = "session"
    /\ LastEp = "image"
    /\ ret = [data |-> <<"D", "E">>, err |-> Nil]

\* the upload failed: transport error, non-OK status, or a body that is no JSON
UploadFailure(resp) ==
    \/ resp.kind = "err"
    \/ resp.status # StatusOK
    \/ ~resp.body.valid

\* C5: when the upload fails (transport error, non-OK status, undecodable
\* body) the call has returned an error and no data, and the upload is the last
\* request of the call: no effect, page or image request exists.
C5_UploadFailureStops ==
    \A i \in At("upload") \cap Answered :
        UploadFailure(resps[i]) =>
            /\ pc = "idle"
            /\ ret.err # Nil
            /\ ret.data = NoData
            /\ i = Len(reqs)
            /\ At("effect") \cup At("page") \cup At("image") = {}

\* C5 witness: the upload was answered 500 and the call is over.
C5_Witness ==
    /\ pc = "idle"
    /\ LastEp = "upload"
    /\ resps[Len(resps)].kind = "http"
    /\ resps[Len(resps)].status = "500 Internal Server Error"
    /\ ret.err # Nil

\* the upload answer decodes and carries an empty string as key
EmptyKey(resp) ==
    /\ resp.kind = "http"
    /\ resp.status = StatusOK
    /\ resp.body.valid
    /\ resp.body.hasKey
    /\ resp.body.keyType = "string"
    /\ resp.body.key = ""

\* the errors the upload step returns for a body that does not decode
DecodeErrs ==
    { uploadResult(r).err :
        r \in { x \in UploadResponses :
                  /\ x.kind = "http"
                  /\ x.status = StatusOK
                  /\ Decode(x.body).err # Nil } }

\* C6: when the upload answer decodes with a present, empty key the call has
\* returned the empty-key error, which is none of the decode-failure errors,
\* and no effect-invocation request exists.
C6_EmptyKeyError ==
    \A i \in At("upload") \cap Answered :
        EmptyKey(resps[i]) =>
            /\ pc = "idle"
            /\ ret.data = NoData
            /\ ret.err = "image key is empty in the response"
            /\ ret.err \notin DecodeErrs
            /\ At("effect") = {}

\* C6 witness: an upload answered {"response":{"key":""}} ended the call.
C6_Witness ==
    /\ pc = "idle"
    /\ LastEp = "upload"
    /\ EmptyKey(resps[Len(resps)])
    /\ DecodeErrs # {}

\* the bootstrap was answered, but without a session: non-OK status or no
\* PHPSESSID cookie
NoCookie(resp) ==
    /\ resp.kind = "http"
    /\ NoSession(resp)

SessionErrs ==
    { "PHPSESSID cookie not found in response" }
    \cup { "server returned non-OK status for PHPSESSID request: " \o st :
             st \in BadStatuses }

\* C7: when a call starts without a token and its session bootstrap is
\* answered without a session cookie (non-OK status, or no PHPSESSID cookie),
\* the call has returned a session error and the bootstrap is its only
\* request: the upload endpoint was never requested.
C7_SessionFailureBeforeUpload ==
    (/\ sess0 = ""
     /\ reqs # <<>>
     /\ reqs[1].ep = "session"
     /\ 1 \in Answered
     /\ NoCookie(resps[1])) =>
        /\ pc = "idle"
        /\ ret.data = NoData
        /\ ret.err \in SessionErrs
        /\ Len(reqs) = 1
        /\ At("upload") = {}
        /\ PHPSESSID = ""

\* C7 witness: the bootstrap was answered 200 without a PHPSESSID cookie.
C7_Witness ==
    /\ sess0 = ""
    /\ pc = "idle"
    /\ LastEp = "session"
    /\ resps[1].kind = "http"
    /\ resps[1].status = StatusOK
    /\ NoSession(resps[1])

\* the errors each step can return
StepErrs(step) ==
    CASE step = "upload" ->
           ({ uploadResult(r).err : r \in UploadResponses }
            \cup { KeyErr("") }
            \cup { "failed to read image data: " \o e : e \in ReadErrs \ {Nil} })
           \ {Nil}
      [] step = "effect" ->
           { effectResult(op.effectName, r).err : r \in EffectResponses } \ {Nil}
      [] step = "page" ->
           { pageResult(r).err : r \in PageResponses } \ {Nil}
      [] step = "image" ->
           { imageResult(r).err : r \in ImageResponses } \ {Nil}

Steps == { "upload", "effect", "page", "image" }

\* C8: the error a call returns tells the failing step: an error returned
\* after the request of one step failed is not an error that another step
\* returns.
C8_StepErrorsDistinct ==
    (/\ pc = "idle"
     /\ LastEp \in Steps
     /\ ret.err # Nil) =>
        \A s \in Steps \ {LastEp} : ret.err \notin StepErrs(s)

-----------------------------------------------------------------------------
(* Properties of extractImageURL, stated on the scanned document. *)

Min(S) == CHOOSE x \in S : \A y \in S : x <= y

\* the shape of document h, in 0-based offsets, -1 standing for "none":
\* marker, where the first marker starts; value, the first character after
\* the first src=" that starts at or after marker; quote, the first quote at
\* or after value
Shape(h) ==
    LET ms == { i \in 0..Len(h) : OccursAt(h, imgTagStart, i) }
        m  == IF ms = {} THEN -1 ELSE Min(ms)
        ss == IF m = -1
              THEN {}
              ELSE { j \in m..Len(h) : OccursAt(h, srcAttrStart, j) }
        v  == IF ss = {} THEN -1 ELSE Min(ss) + 5
        qs == IF v = -1
              THEN {}
              ELSE { k \in v..(Len(h) - 1) : h[k + 1] = "\"" }
        q  == IF qs = {} THEN -1 ELSE Min(qs)
    IN  [marker |-> m, value |-> v, quote |-> q]

NoMarker(sh) == sh.marker = -1

NoSrc(sh) == sh.marker # -1 /\ sh.value = -1

Unterminated(sh) == sh.value # -1 /\ sh.quote = -1

WellFormed(sh) == sh.quote # -1

\* C9: on a document without the marker, with the marker but no src=" after
\* it, or with src=" but no quote after it, extractImageURL returns the empty
\* URL and the error of that case; the three errors are three different
\* messages.
C9_MalformedErrors ==
    epc = "done" =>
        LET sh == Shape(html)
        IN  /\ NoMarker(sh) =>
                  url = <<>> /\ err = "could not find result image in HTML"
            /\ NoSrc(sh) =>
                  url = <<>> /\ err = "could not find src attribute in image tag"
            /\ Unterminated(sh) =>
                  url = <<>> /\ err = "could not find end of src attribute"
            /\ ~WellFormed(sh) => err # Nil

\* C9 witness: a document with text before the marker and an attribute value
\* that is never closed has been scanned.
C9_Witness ==
    /\ epc = "done"
    /\ Unterminated(Shape(html))
    /\ Shape(html).marker > 0
    /\ Len(html) > Shape(html).value

\* C10: on a document with the marker, src=" at or after it and a quote after
\* that, extractImageURL returns no error and exactly the characters strictly
\* between the first such src=" and the next quote: no quote is part of it and
\* nothing is added or cut.
C10_ExtractsExactValue ==
    epc = "done" =>
        LET sh == Shape(html)
        IN  WellFormed(sh) =>
                /\ err = Nil
                /\ url = SubSeq(html, sh.value + 1, sh.quote)
                /\ Len(url) = sh.quote - sh.value
                /\ \A i \in 1..Len(url) : url[i] # "\""

\* C10 witness: the marker is preceded by text, the value between the quotes
\* is "x" and text follows the closing quote.
C10_Witness ==
    /\ epc = "done"
    /\ WellFormed(Shape(html))
    /\ Shape(html).marker > 0
    /\ Len(html) > Shape(html).quote + 1
    /\ url = <<"x">>

-----------------------------------------------------------------------------
(* Properties of the input stream. *)

\* C11: the input stream is never closed twice, and when an effect operation
\* has returned - after a failed read, a failed session bootstrap, a failed
\* upload or any later outcome - it has been closed exactly once.
C11_StreamClosedOnce ==
    /\ closes <= 1
    /\ (pc = "idle" /\ calls > 0) => closes = 1

\* C11 witness: a call whose session bootstrap failed has returned with the
\* stream closed.
C11_Witness ==
    /\ pc = "idle"
    /\ LastEp = "session"
    /\ ret.err # Nil
    /\ closes = 1

\* C12: the stream is closed right after its bytes were read: whenever the
\* running call has issued a request (session bootstrap or upload), the stream
\* is already closed.
C12_ClosedBeforeRequests == reqs # <<>> => closes >= 1

-----------------------------------------------------------------------------
(* Properties of failure handling and sequencing. *)

\* the answer lets the step at endpoint ep succeed
OkResp(ep, resp) ==
    /\ resp.kind = "http"
    /\ resp.status = StatusOK
    /\ ep = "session" =>
          \E i \in 1..Len(resp.cookies) : resp.cookies[i].name = "PHPSESSID"
    /\ ep = "upload" =>
          /\ resp.body.valid
          /\ resp.body.hasKey
          /\ resp.body.keyType = "string"
          /\ resp.body.key # ""
    /\ ep = "page" => resp.readErr = Nil /\ WellFormed(Shape(resp.body))
    /\ ep = "image" => resp.readErr = Nil

\* C13: a non-200 status answered to any request of a call (session
\* bootstrap, upload, effect invocation, result page, image) makes the call
\* return an error and no data, and that request is the last of the call: it
\* is not issued again and nothing follows it.
C13_BadStatusIsFailure ==
    \A i \in Answered :
        (resps[i].kind = "http" /\ resps[i].status # StatusOK) =>
            /\ i = Len(reqs)
            /\ pc = "idle"
            /\ ret.err # Nil
            /\ ret.data = NoData

\* C13 witness: the result page was answered 404 and the call is over.
C13_Witness ==
    /\ pc = "idle"
    /\ LastEp = "page"
    /\ resps[Len(resps)].kind = "http"
    /\ resps[Len(resps)].status = "404 Not Found"

\* C14: within one call each of the four pipeline endpoints is requested at
\* most once, and a request whose answer makes its step fail is the last
\* request of the call, which has returned an error.
C14_FailureIsTerminal ==
    /\ \A ep \in Steps : Cardinality(At(ep)) <= 1
    /\ \A i \in Answered :
          ~OkResp(reqs[i].ep, resps[i]) =>
              /\ i = Len(reqs)
              /\ pc = "idle"
              /\ ret.err # Nil

\* C14 witness: the effect invocation failed in transport after a session
\* bootstrap and an upload, and the call is over.
C14_Witness ==
    /\ pc = "idle"
    /\ Len(reqs) = 3
    /\ LastEp = "effect"
    /\ resps[3].kind = "err"

Order == << "upload", "effect", "page", "image" >>

\* positions at which the running call waits for an answer
WaitPositions ==
    { "upload_boot", "effect_boot", "page_boot", "image_boot",
      "upload_wait", "effect_wait", "page_wait", "image_wait" }

IsStep(r) == r.ep \in Steps

\* C15: the pipeline requests of a call occur in the order upload, effect
\* invocation, result page, image; every request that has a successor was
\* answered successfully; each request carries its predecessor's output (the
\* uploaded key, the final URL of the effect invocation, the URL scraped from
\* the page); and a request is issued only when every earlier one has been
\* answered.
C15_FixedOrder ==
    LET steps == SelectSeq(reqs, IsStep)
    IN  /\ Len(steps) <= 4
        /\ \A k \in 1..Len(steps) : steps[k].ep = Order[k]
        /\ Len(reqs) - Len(resps) \in {0, 1}
        /\ Len(resps) < Len(reqs) => pc \in WaitPositions
        /\ pc \in WaitPositions => Len(resps) < Len(reqs)
        /\ \A i \in 1..(Len(reqs) - 1) : OkResp(reqs[i].ep, resps[i])
        /\ \A i \in At("effect") : \E j \in At("upload") :
              j < i /\ reqs[i].body["image"] = resps[j].body.key
        /\ \A i \in At("page") : \E j \in At("effect") :
              j < i /\ reqs[i].url = resps[j].finalURL
        /\ \A i \in At("image") : \E j \in At("page") :
              LET sh == Shape(resps[j].body)
              IN  /\ j < i
                  /\ reqs[i].url = SubSeq(resps[j].body, sh.value + 1, sh.quote)
                  /\ reqs[i].referer = reqs[j].url

\* C15 witness: all four requests of a call have been issued, the image one
\* for the two-character URL of the second result page.
C15_Witness ==
    /\ Len(SelectSeq(reqs, IsStep)) = 4
    /\ LastEp = "image"
    /\ reqs[Len(reqs)].url = <<"v", "w">>

\* C16: a call that has returned gives either an error and no data, or no
\* error and the body of the image download, every request of the call having
\* been answered successfully.
C16_ErrorOrData ==
    (pc = "idle" /\ calls > 0) =>
        \/ ret.err # Nil /\ ret.data = NoData
        \/ /\ ret.err = Nil
           /\ LastEp = "image"
           /\ ret.data = resps[Len(resps)].body
           /\ \A i \in 1..Len(reqs) : OkResp(reqs[i].ep, resps[i])

\* C16 witness: the image was answered 200 but its body could not be read;
\* the call returned an error and no data.
C16_Witness ==
    /\ pc = "idle"
    /\ LastEp = "image"
    /\ resps[Len(resps)].kind = "http"
    /\ resps[Len(resps)].status = StatusOK
    /\ resps[Len(resps)].readErr # Nil
    /\ ret.err # Nil
    /\ ret.data = NoData

\* C17: the effect-invocation request of ClownifyWithContext carries the
\* parameter hat with the value "on" when includeHat is true and "off" when it
\* is false.
C17_HatParameter ==
    \A i \in At("effect") :
        op.effectName = "clownify" =>
            /\ "hat" \in DOMAIN reqs[i].body
            /\ reqs[i].body["hat"] = IF op.hat THEN "on" ELSE "off"

\* C17 witness: ClownifyWithContext without hat has sent its effect request.
C17_Witness ==
    /\ op.effectName = "clownify"
    /\ op.hat = FALSE
    /\ LastEp = "effect"
    /\ reqs[Len(reqs)].body["hat"] = "off"

\* the request was aborted by the caller's context
Cancelled(resp) == resp.kind = "err" /\ resp.cause \in ContextErrs

\* the errors a call returns when a request fails with a generic network error
GenericNetworkErrs ==
    LET f == Failed(NetworkErr)
        g == generateSessIDWithContext("", f).err
    IN  { g,
          "failed to create HTTP request for result page: " \o g,
          "failed to create HTTP request for image: " \o g,
          uploadResult(f).err,
          effectResult(op.effectName, f).err,
          pageResult(f).err,
          imageResult(f).err }

\* C19: when a request of a call (session bootstrap, upload, effect
\* invocation, result page, image) is aborted by the cancellation or the
\* deadline of the caller's context, it is the last request of the call, and
\* the call has returned an error that is none of the errors returned for a
\* generic network failure.
C19_CancellationSurfaces ==
    \A i \in Answered :
        Cancelled(resps[i]) =>
            /\ i = Len(reqs)
            /\ pc = "idle"
            /\ ret.data = NoData
            /\ ret.err # Nil
            /\ ret.err \notin GenericNetworkErrs

\* C19 witness: the result-page fetch was aborted by the deadline.
C19_Witness ==
    /\ pc = "idle"
    /\ LastEp = "page"
    /\ resps[Len(resps)] = Failed("context deadline exceeded")

\* C20: the effect-invocation request of a call carries as parameter image
\* the key answered to the upload of the same call, and a call sends at most
\* one upload and one effect invocation.
C20_KeyOfThisCall ==
    /\ Cardinality(At("upload")) <= 1
    /\ Cardinality(At("effect")) <= 1
    /\ \A i \in At("effect") : \E j \in At("upload") :
          /\ j < i
          /\ "image" \in DOMAIN reqs[i].body
          /\ reqs[i].body["image"] = resps[j].body.key
          /\ reqs[i].body["image"] = imageKey

\* C20 witness: the second call on the client has sent its effect request
\* with the key k2 of its own upload.
C20_Witness ==
    /\ calls = 2
    /\ LastEp = "effect"
    /\ reqs[Len(reqs)].body["image"] = "k2"

-----------------------------------------------------------------------------
(* Properties of concurrent calls on one client. *)

\* calls whose bootstrap request is in flight
InFlight == { t \in Threads : tpc[t] = "wait" }

\* C18: among concurrent calls on one client, a call issues a bootstrap
\* request only after reading the token as absent, and at most one; nothing
\* else limits the requests, so their total is the number of calls that read
\* the token as absent and went on, which can exceed one.
C18_BootstrapPerAbsentRead ==
    /\ \A t \in Threads :
          /\ tboots[t] <= 1
          /\ tboots[t] = 1 => tsaw[t] = ""
          /\ (tpc[t] \in {"wait", "store", "failed"}) => tboots[t] = 1
          /\ (tsaw[t] # "" /\ tpc[t] # "check") => tboots[t] = 0
    /\ boots = Cardinality({ t \in Threads : tboots[t] = 1 })

\* C18 witness: two calls read the token as absent before either stored one,
\* and both bootstrap requests are in flight.
C18_Witness ==
    /\ PHPSESSID = ""
    /\ acquired = 0
    /\ boots = 2
    /\ Cardinality(InFlight) = 2

-----------------------------------------------------------------------------
(* The marker element without a src attribute. *)

\* the 0-based offset just past the first marker element of h, whose first
\* marker starts at offset m: the offset after the first ">" at or after the
\* marker's end, or the length of h when no ">" follows
ElementEnd(h, m) ==
    LET from == m + Len(imgTagStart)
        gs   == { k \in from..(Len(h) - 1) : h[k + 1] = ">" }
    IN  IF gs = {} THEN Len(h) ELSE Min(gs) + 1

\* h has a marker element and no src=" starts inside it
ElementWithoutSrc(h) ==
    LET sh == Shape(h)
    IN  /\ sh.marker # -1
        /\ \A j \in sh.marker..(ElementEnd(h, sh.marker) - 1) :
               ~OccursAt(h, srcAttrStart, j)

\* C21: when the marker element itself has no src attribute,
\* extractImageURL returns the empty string and an error, whatever follows
\* the element.
C21_ElementWithoutSrcIsError ==
    (epc = "done" /\ ElementWithoutSrc(html)) => (url = <<>> /\ err # Nil)

-----------------------------------------------------------------------------
(* Failed session acquisition. *)

\* the errors of generateSessIDWithContext
AcquisitionErrs ==
    SessionErrs
    \cup { "failed to perform request to PhotoFunia for PHPSESSID: " \o c :
             c \in TransportErrs }

\* an acquisition error as the call returns it from each of its steps
ReturnedAcquisitionErrs ==
    AcquisitionErrs
    \cup { "failed to create HTTP request for result page: " \o e :
             e \in AcquisitionErrs }
    \cup { "failed to create HTTP request for image: " \o e :
             e \in AcquisitionErrs }

\* positions at which the running call builds a request
BuildPositions == { "upload_req", "effect_req", "page_req", "image_req" }

\* the step builds a request for a URL that http.NewRequestWithContext accepts
BuildsRequest ==
    /\ pc \in BuildPositions
    /\ pc' # pc
    /\ pc = "image_req" => NewRequestErr(imageURL) = Nil

\* the step is the arrival of the answer to a session bootstrap
BootstrapAnswered ==
    /\ Len(resps') = Len(resps) + 1
    /\ reqs'[Len(resps')].ep = "session"

\* C22: a session bootstrap whose HTTP call errors, whose answer has a non-OK
\* status, or whose answer has no PHPSESSID cookie makes the call return an
\* acquisition error and leaves the client's token absent as it was; and a
\* request built while the token is absent issues a session bootstrap.
C22_FailedAcquisitionLeavesTokenAbsent ==
    [][/\ (BootstrapAnswered /\ NoSession(resps'[Len(resps')])) =>
              /\ PHPSESSID = ""
              /\ PHPSESSID' = PHPSESSID
              /\ acquired' = acquired
              /\ pc' = "idle"
              /\ ret'.data = NoData
              /\ ret'.err \in ReturnedAcquisitionErrs
       /\ (BuildsRequest /\ PHPSESSID = "") =>
              /\ boots' = boots + 1
              /\ reqs'[Len(reqs')] = BootRequest]_vars

\* C22 witness: the first call failed to acquire a session and the second
\* call, on the token still absent, has issued a bootstrap of its own, which
\* failed on a non-OK status.
C22_Witness ==
    /\ calls = 2
    /\ boots = 2
    /\ acquired = 0
    /\ PHPSESSID = ""
    /\ pc = "idle"
    /\ LastEp = "session"
    /\ resps[1].kind = "http"
    /\ resps[1].status # StatusOK
    /\ \E i \in 1..Len(resps[1].cookies) : resps[1].cookies[i].name = "PHPSESSID"

-----------------------------------------------------------------------------
(* The parameters of the effect request. *)

\* C23 as stated: the effect request of either operation holds a category
\* tag, the crop geometry, a size and the image key, and that of
\* ClownifyWithContext its hat toggle as well.
C23_AllFixedParameters ==
    \A i \in At("effect") :
        LET body == reqs[i].body
        IN  /\ {"current-category", "image:crop", "size", "image"}
                   \subseteq DOMAIN body
            /\ body["image:crop"] = "0.0.961.1093"
            /\ body["size"] = "XXXXXL"
            /\ body["image"] = imageKey
            /\ op.effectName = "fatify" => body["current-category"] = "faces"
            /\ op.effectName = "clownify" =>
                   /\ body["current-category"] = "all_effects"
                   /\ "hat" \in DOMAIN body

\* C23: the effect request of FatifyWithContext holds exactly current-category
\* = faces, image:crop = 0.0.961.1093, size = XXXXXL and the image key; that
\* of ClownifyWithContext holds exactly current-category = all_effects,
\* image:crop = 0.0.961.1093, hat = on or off and the image key, and no size.
C23_OwnFixedParameters ==
    \A i \in At("effect") :
        LET body == reqs[i].body
        IN  /\ op.effectName \in {"fatify", "clownify"}
            /\ op.effectName = "fatify" =>
                   /\ DOMAIN body =
                          {"current-category", "image:crop", "size", "image"}
                   /\ body["current-category"] = "faces"
                   /\ body["image:crop"] = "0.0.961.1093"
                   /\ body["size"] = "XXXXXL"
                   /\ body["image"] = imageKey
            /\ op.effectName = "clownify" =>
                   /\ DOMAIN body =
                          {"current-category", "image:crop", "hat", "image"}
                   /\ body["current-category"] = "all_effects"
                   /\ body["image:crop"] = "0.0.961.1093"
                   /\ body["hat"] \in {"on", "off"}
                   /\ body["image"] = imageKey

\* C23 witness: a call of FatifyWithContext and then a call of
\* ClownifyWithContext with hat have sent their effect requests, the second
\* one without a size.
C23_Witness ==
    /\ calls = 2
    /\ op.effectName = "clownify"
    /\ op.hat = TRUE
    /\ LastEp = "effect"
    /\ "size" \notin DOMAIN reqs[Len(reqs)].body
    /\ reqs[Len(reqs)].body["hat"] = "on"

-----------------------------------------------------------------------------
(* The Cookie header of the pipeline's requests. *)

\* the step hands a request other than the session bootstrap to the HTTP
\* client
SendsRequest ==
    /\ Len(reqs') = Len(reqs) + 1
    /\ reqs'[Len(reqs')].ep # "session"

\* C24: every request other than the session bootstrap is sent with the
\* Cookie header accept_cookie=true; PHPSESSID={token}, where token is the
\* token the client holds at that moment and is not empty.
C24_CookieCarriesHeldToken ==
    [][SendsRequest =>
          /\ PHPSESSID # ""
          /\ reqs'[Len(reqs')].cookie =
                 "accept_cookie=true; PHPSESSID=" \o PHPSESSID]_vars

-----------------------------------------------------------------------------
(* A failed read of the input stream. *)

\* the step is the return of a call whose stream could not be read
ReadFails == pc = "read" /\ pc' = "idle"

\* C25: when the read of the input stream fails, the call returns an error
\* and no data, has issued no request (no session bootstrap, no upload), and
\* the client's token is the one held before.
C25_ReadFailureSendsNothing ==
    [][ReadFails =>
          /\ ret'.err = "failed to read image data: unexpected EOF"
          /\ ret'.data = NoData
          /\ reqs' = <<>>
          /\ resps' = <<>>
          /\ boots' = boots
          /\ acquired' = acquired
          /\ PHPSESSID' = PHPSESSID
          /\ PHPSESSID' = sess0]_vars

\* C25 witnesses: the first call on a client without a token, or a later call
\* on a client holding one, returned the read error having sent nothing.
ReadFailed ==
    /\ pc = "idle"
    /\ calls > 0
    /\ reqs = <<>>
    /\ ret.err = "failed to read image data: unexpected EOF"

C25_Witness ==
    /\ ReadFailed
    /\ calls = 2
    /\ boots = 1
    /\ PHPSESSID = "s1"

-----------------------------------------------------------------------------
(* Properties of WithTimeout. *)

\* the step is a call of WithTimeout
Derives == Len(refs') = Len(refs) + 1

\* the step is the return of createRequestWithContext on the client at
\* address c
RequestsOn(c) == c \in 1..Len(hreqs) /\ hreqs'[c] = hreqs[c] + 1

\* the step issues a bootstrap request for the client at address c
BootstrapsOn(c) == c \in 1..Len(hboots) /\ hboots'[c] = hboots[c] + 1

\* C26: WithTimeout returns a client at a new address and leaves the receiver
\* (and every other client) as it was; the new client has the timeout asked
\* for, an HTTP client of its own and the receiver's token as it was at the
\* call.  Afterwards a bootstrap issued or a request built on one client
\* changes no other client's token and counts as no other client's bootstrap;
\* a client holding a token keeps it and issues no bootstrap, and a client
\* without a token builds its request only after a bootstrap of its own.
C26_DerivedClientIndependent ==
    [][/\ Derives =>
              LET call == refs'[Len(refs')]
              IN  /\ call.ref \notin 1..Len(heap)
                  /\ call.ref \in 1..Len(heap')
                  /\ \A a \in 1..Len(heap) : heap'[a] = heap[a]
                  /\ heap'[call.ref].PHPSESSID = heap[call.of].PHPSESSID
                  /\ heap'[call.ref].timeout = call.timeout
                  /\ heap'[call.ref].client.Timeout = call.timeout
                  /\ \A a \in 1..Len(heap) :
                         heap'[call.ref].client.id # heap[a].client.id
                  /\ hboots'[call.ref] = 0
                  /\ \A a \in 1..Len(heap) : hboots'[a] = hboots[a]
       /\ \A c \in 1..Len(heap) :
              (RequestsOn(c) \/ BootstrapsOn(c)) =>
                  /\ \A b \in (1..Len(heap)) \ {c} :
                         heap'[b] = heap[b] /\ hboots'[b] = hboots[b]
                  /\ BootstrapsOn(c) =>
                         heap[c].PHPSESSID = "" /\ heap'[c] = heap[c]
                  /\ (RequestsOn(c) /\ heap[c].PHPSESSID = "") =>
                         hwait[c] /\ hboots[c] >= 1
                  /\ (RequestsOn(c) /\ heap[c].PHPSESSID # "") =>
                         heap'[c] = heap[c] /\ hboots'[c] = hboots[c]]_vars

\* C26 witness: a client was derived from a client without a token; then the
\* receiver acquired s1 and the derived client, by a bootstrap of its own, s2.
C26_Witness ==
    /\ Len(heap) = 2
    /\ refs[1].of = 1
    /\ refs[1].ref = 2
    /\ heap[1].PHPSESSID = "s1"
    /\ heap[2].PHPSESSID = "s2"
    /\ hboots = << 1, 1 >>
    /\ hreqs = << 1, 1 >>
    /\ heap[1].timeout = DefaultTimeout
    /\ heap[2].timeout = 5

====
